---- MODULE Spec2Model ----
(***************************************************************************)
(* Model of src/systeminfo.py: a Flask application whose seven handlers    *)
(* answer host, cluster and image-scan queries.  The hosting HTTP layer    *)
(* runs one thread per request; here two clients issue requests, and each  *)
(* handler advances from one blocking backend call to the next.  What a    *)
(* backend call returns is chosen when the call is made and is recorded in *)
(* the request's own call log.                                             *)
(*                                                                         *)
(* Encodings.  A JSON response body is a record; a JSON array body is the  *)
(* record [array |-> <<...>>].  A message built by an f-string is the      *)
(* sequence of its parts, so f"Kubernetes API error: {e.reason}" is        *)
(* <<"Kubernetes API error: ", reason>>; a constant message is a sequence  *)
(* of one part.  An optional attribute of a client object (None or a       *)
(* list) is a [present, v] record.                                         *)
(***************************************************************************)
EXTENDS Integers, Sequences, FiniteSets, TLC

(* Per client (one handler thread each):                                *)
(*   pc     where the thread is: "idle", the backend call it is about to *)
(*          make, or "done" once the handler has returned;               *)
(*   req    the request being served;                                    *)
(*   local  the handler's local variables;                               *)
(*   calls  the backend calls the request has made, with their outcomes; *)
(*   resp   the response the handler returned.                           *)
VARIABLES pc, req, local, calls, resp

vars == <<pc, req, local, calls, resp>>

(* Bounds of the model. *)
MaxItems == 1
MaxNodes == 2
MaxConds == 2

Clients == {"c1", "c2"}

(* ------------------------------------------------------------------ *)
(* Requests                                                             *)
(* ------------------------------------------------------------------ *)

Ops == {"health", "system_info", "kubernetes_info", "kubernetes_namespaces",
        "kubernetes_nodes", "pod_metrics", "scan_image"}

(* The query string either lacks ?namespace= or carries a value, which   *)
(* may be the empty string.                                              *)
NoArg == "<no namespace argument>"
NsArgs == {NoArg, "", "default", "prod"}

(* JSON values a scan request may carry in container_id. *)
JStr(s) == [t |-> "str", v |-> s]
JNum(s) == [t |-> "num", v |-> s]
JNull == [t |-> "null", v |-> ""]
JsonValues == {JStr(""), JStr("nginx:latest"), JNum("0"), JNum("7"), JNull}

(* The JSON body of a scan request: null (get_json() returns None), or an *)
(* object with or without the container_id field.                        *)
NullBody == [isObject |-> FALSE, hasField |-> FALSE, container_id |-> JNull]
ObjectWithout == [isObject |-> TRUE, hasField |-> FALSE, container_id |-> JNull]
ObjectWith(j) == [isObject |-> TRUE, hasField |-> TRUE, container_id |-> j]
Bodies == {NullBody, ObjectWithout} \cup {ObjectWith(j) : j \in JsonValues}

Request(op, ns, body) == [op |-> op, ns |-> ns, body |-> body]

Requests ==
    {Request(op, NoArg, NullBody) :
        op \in {"health", "system_info", "kubernetes_namespaces", "kubernetes_nodes"}}
    \cup {Request(op, ns, NullBody) :
            op \in {"kubernetes_info", "pod_metrics"}, ns \in NsArgs}
    \cup {Request("scan_image", NoArg, b) : b \in Bodies}

NoRequest == Request("none", NoArg, NullBody)

(* ------------------------------------------------------------------ *)
(* What the backends can answer                                         *)
(* ------------------------------------------------------------------ *)

Reasons == {"Forbidden", "Not Found"}

(* The outcome of one client-library call: a result, an ApiException      *)
(* carrying the control plane's reason, or any other exception (network,  *)
(* serialization).                                                        *)
Ok(v) == [kind |-> "ok", v |-> v, reason |-> ""]
ApiError(r) == [kind |-> "api", v |-> <<>>, reason |-> r]
OtherError == [kind |-> "other", v |-> <<>>, reason |-> ""]
Failures == {ApiError(r) : r \in Reasons} \cup {OtherError}

(* .items of a deployment, service or pod list. *)
ItemLists == {[i \in 1..n |-> i] : n \in 0..MaxItems}
ListOutcomes == {Ok(l) : l \in ItemLists} \cup Failures

(* .items of list_namespace(): namespace objects, by metadata.name. *)
NamespaceLists == {<<>>, <<"default">>, <<"default", "prod">>}
NamespaceOutcomes == {Ok(l) : l \in NamespaceLists} \cup Failures

(* node.status.conditions and node.status.addresses are optional. *)
None == [present |-> FALSE, v |-> <<>>]
Some(s) == [present |-> TRUE, v |-> s]
CondTypes == {"Ready", "DiskPressure"}
RECURSIVE SeqsUpTo(_, _)
SeqsUpTo(S, n) ==
    IF n = 0 THEN {<<>>}
    ELSE LET shorter == SeqsUpTo(S, n - 1)
         IN  shorter \cup {Append(s, x) : s \in {t \in shorter : Len(t) = n - 1}, x \in S}
Injective(s) == \A i, j \in 1..Len(s) : s[i] = s[j] => i = j
ConditionLists == {s \in SeqsUpTo(CondTypes, MaxConds) : Injective(s)}
NodeShapes ==
    {[conditions |-> Some(s), addresses |-> Some(<<"10.0.0.1">>)] : s \in ConditionLists}
    \cup {[conditions |-> None, addresses |-> Some(<<"10.0.0.1">>)],
          [conditions |-> Some(<<"Ready">>), addresses |-> None]}
NodeLists == SeqsUpTo(NodeShapes, MaxNodes)
NodeOutcomes == {Ok(l) : l \in NodeLists} \cup Failures

(* The metrics API's document, passed through unread: its kind and the *)
(* pods it has usage for.                                               *)
MetricsDocs == {<<"PodMetricsList">>, <<"PodMetricsList", "web-1">>}
MetricsOutcomes == {Ok(d) : d \in MetricsDocs} \cup Failures

(* psutil: a sample, or an exception. *)
(* A sample is <<cpu percent, memory usage, disk usage, boot time>>. *)
HostSamples == {<<cpu, "mem 62.5%", "disk 40.0%", "1700000000">> : cpu \in {"0.0", "12.5"}}
HostOutcomes == {Ok(s) : s \in HostSamples} \cup {OtherError}

(* subprocess.run(..., check=True): the scanner exits zero, exits      *)
(* non-zero (CalledProcessError), or cannot be run at all.              *)
Exit(code, out, err) == [kind |-> code, stdout |-> out, stderr |-> err]
ScannerOutcomes ==
    {Exit("zero", out, "") : out \in {"", "{\"Results\":[]}"}}
    \cup {Exit("nonzero", "", err) : err \in {"", "FATAL image not found"}}
    \cup {Exit("exception", "", "")}

(* ------------------------------------------------------------------ *)
(* Responses                                                            *)
(* ------------------------------------------------------------------ *)

(* jsonify(body), status: the handler's own response. *)
Json(status, body) == [status |-> status, body |-> body, handled |-> TRUE]

(* An exception that leaves the handler: Flask answers 500 with its own  *)
(* HTML error page, no JSON body.                                        *)
Unhandled == [status |-> 500, body |-> [html |-> "Internal Server Error"], handled |-> FALSE]

NoResponse == [status |-> 0, body |-> [none |-> TRUE], handled |-> FALSE]

(* request.args.get('namespace', 'default') *)
ResolveNamespace(arg) == IF arg = NoArg THEN "default" ELSE arg

(* Whether a client-library call leaves by an exception. *)
Raises(out) == out.kind # "ok"

(* str(e) of an ApiException: "(status)\nReason: <reason>\n..." *)
StrApiException(out) == <<"Reason: ", out.reason>>

HealthResponse == Json(200, [status |-> "ok"])

SystemInfoResponse(out) ==
    IF Raises(out)
    THEN Json(500, [error |-> <<"Failed to fetch system information">>])
    ELSE Json(200, [cpu_percent |-> out.v[1],
                    memory_usage |-> out.v[2],
                    disk_usage |-> out.v[3],
                    boot_time |-> out.v[4]])

(* A mutant: the pod count is reported as the service count. *)
KubeInfoBodySwapped(namespace, deployments, services, pods) ==
    Json(200, [namespace |-> namespace,
               num_deployments |-> Len(deployments),
               num_services |-> Len(pods),
               num_pods |-> Len(pods)])

KubeInfoBody(namespace, deployments, services, pods) ==
    Json(200, [namespace |-> namespace,
               num_deployments |-> Len(deployments),
               num_services |-> Len(services),
               num_pods |-> Len(pods)])

(* The two except clauses of get_kubernetes_info. *)
KubeInfoExcept(out) ==
    IF out.kind = "api"
    THEN Json(500, [error |-> <<"Kubernetes API error: ", out.reason>>])
    ELSE Json(500, [error |-> <<"Failed to fetch Kubernetes information">>])

NamespacesResponse(out) ==
    IF Raises(out)
    THEN Json(500, [error |-> <<"Failed to fetch Kubernetes namespaces">>])
    ELSE Json(200, [array |-> out.v])

(* Python truth value of an optional list: None and [] are false. *)
TruthyList(opt) == opt.present /\ Len(opt.v) > 0

(* A mutant: the status is looked up as the "Ready" condition. *)
NodeStatusReady(conditions) ==
    IF TruthyList(conditions)
    THEN IF \E i \in 1..Len(conditions.v) : conditions.v[i] = "Ready"
         THEN "Ready" ELSE conditions.v[Len(conditions.v)]
    ELSE "Unknown"

(* node.status.conditions[-1].type if node.status.conditions else "Unknown" *)
NodeStatus(conditions) ==
    IF TruthyList(conditions) THEN conditions.v[Len(conditions.v)] ELSE "Unknown"

(* One element of node_info; metadata.name is the node's position. *)
NodeInfo(i, node) ==
    [name |-> i,
     status |-> NodeStatus(node.conditions),
     addresses |-> node.addresses.v,
     cpu |-> "4",
     memory |-> "8Gi"]

(* Iterating node.status.addresses raises TypeError when it is None; the *)
(* comprehension runs inside the try block.                              *)
NodesResponse(out) ==
    IF Raises(out) \/ \E i \in 1..Len(out.v) : ~out.v[i].addresses.present
    THEN Json(500, [error |-> <<"Failed to fetch node information">>])
    ELSE Json(200, [array |-> [i \in 1..Len(out.v) |-> NodeInfo(i, out.v[i])]])

(* get_pod_metrics catches ApiException only. *)
PodMetricsResponse(out) ==
    CASE out.kind = "ok" -> Json(200, [document |-> out.v])
      [] out.kind = "api" ->
            Json(500, [error |-> <<"Failed to fetch pod metrics">>,
                       details |-> StrApiException(out)])
      [] OTHER -> Unhandled

(* Python truth value of a JSON value (None for an absent field). *)
Truthy(j) ==
    CASE j.t = "str" -> j.v # ""
      [] j.t = "num" -> j.v # "0"
      [] OTHER -> FALSE

(* data.get('container_id') on a dict. *)
GetContainerId(body) == IF body.hasField THEN body.container_id ELSE JNull

(* A mutant: subprocess.run without check=True, a non-zero exit is     *)
(* returned like a success.                                             *)
ScanResponseUnchecked(out) ==
    CASE out.kind \in {"zero", "nonzero"} -> Json(200, [scan_results |-> out.stdout])
      [] OTHER -> Json(500, [error |-> <<"An unexpected error occurred">>])

(* The try block of scan_image. *)
ScanResponse(out) ==
    CASE out.kind = "zero" -> Json(200, [scan_results |-> out.stdout])
      [] out.kind = "nonzero" ->
            Json(500, [error |-> <<"Trivy scan failed">>, details |-> out.stderr])
      [] OTHER -> Json(500, [error |-> <<"An unexpected error occurred">>])

(* ------------------------------------------------------------------ *)
(* State                                                                *)
(* ------------------------------------------------------------------ *)

(* The local variables of a handler invocation. *)
NoLocals == [namespace |-> "", deployments |-> <<>>, services |-> <<>>, image |-> JNull]

(* One entry of a request's call log: the backend call made, the         *)
(* namespace or image it was made with, and what came back.              *)
Call(api, arg, out) == [api |-> api, arg |-> arg, out |-> out]

(* The route table: the first position of each handler. *)
Entry(op) ==
    CASE op = "health" -> "health"
      [] op = "system_info" -> "psutil"
      [] op = "kubernetes_info" -> "list_deployments"
      [] op = "kubernetes_namespaces" -> "list_namespace"
      [] op = "kubernetes_nodes" -> "list_node"
      [] op = "pod_metrics" -> "list_metrics"
      [] op = "scan_image" -> "get_json"

Init ==
    /\ pc = [c \in Clients |-> "idle"]
    /\ req = [c \in Clients |-> NoRequest]
    /\ local = [c \in Clients |-> NoLocals]
    /\ calls = [c \in Clients |-> <<>>]
    /\ resp = [c \in Clients |-> NoResponse]

(* A mutant: the namespace is kept in one place for all requests. *)
NamespaceShared(c) == local["c1"].namespace

(* The handler's local variable namespace. *)
Namespace(c) == local[c].namespace

(* The handler returns r. *)
Return(c, r) ==
    /\ resp' = [resp EXCEPT ![c] = r]
    /\ pc' = [pc EXCEPT ![c] = "done"]

Logged(c, api, arg, out) == calls' = [calls EXCEPT ![c] = Append(@, Call(api, arg, out))]

(* ------------------------------------------------------------------ *)
(* Actions                                                              *)
(* ------------------------------------------------------------------ *)

(* The HTTP layer hands a request to a handler thread. *)
Receive(c) ==
    /\ pc[c] = "idle"
    /\ \E r \in Requests :
          /\ req' = [req EXCEPT ![c] = r]
          /\ pc' = [pc EXCEPT ![c] = Entry(r.op)]
    /\ UNCHANGED <<local, calls, resp>>

health_check(c) ==
    /\ pc[c] = "health"
    /\ Return(c, HealthResponse)
    /\ UNCHANGED <<req, local, calls>>

get_system_info(c) ==
    /\ pc[c] = "psutil"
    /\ \E out \in HostOutcomes :
          /\ Logged(c, "psutil", "/", out)
          /\ Return(c, SystemInfoResponse(out))
    /\ UNCHANGED <<req, local>>

(* A mutant: a failed list call is issued once more before giving up. *)
ListDeploymentsRetry(c) ==
    /\ pc[c] = "list_deployments"
    /\ LET namespace == ResolveNamespace(req[c].ns)
       IN  \E out \in ListOutcomes :
              /\ Logged(c, "list_namespaced_deployment", namespace, out)
              /\ local' = [local EXCEPT ![c].namespace = namespace,
                                        ![c].deployments = out.v]
              /\ IF Raises(out) /\ Len(calls[c]) = 0
                 THEN UNCHANGED <<pc, resp>>
                 ELSE IF Raises(out)
                 THEN Return(c, KubeInfoExcept(out))
                 ELSE /\ pc' = [pc EXCEPT ![c] = "list_services"]
                      /\ UNCHANGED resp
    /\ UNCHANGED req

(* get_kubernetes_info up to the return of list_namespaced_deployment. *)
ListDeployments(c) ==
    /\ pc[c] = "list_deployments"
    /\ LET namespace == ResolveNamespace(req[c].ns)
       IN  \E out \in ListOutcomes :
              /\ Logged(c, "list_namespaced_deployment", namespace, out)
              /\ IF Raises(out)
                 THEN /\ Return(c, KubeInfoExcept(out))
                      /\ local' = [local EXCEPT ![c].namespace = namespace]
                 ELSE /\ local' = [local EXCEPT ![c].namespace = namespace,
                                                ![c].deployments = out.v]
                      /\ pc' = [pc EXCEPT ![c] = "list_services"]
                      /\ UNCHANGED resp
    /\ UNCHANGED req

(* A mutant: a failure of the services call is caught on its own and   *)
(* the summary goes on with no services.                                *)
ListServicesLenient(c) ==
    /\ pc[c] = "list_services"
    /\ \E out \in ListOutcomes :
          /\ Logged(c, "list_namespaced_service", Namespace(c), out)
          /\ local' = [local EXCEPT ![c].services = out.v]
          /\ pc' = [pc EXCEPT ![c] = "list_pods"]
          /\ UNCHANGED resp
    /\ UNCHANGED req

(* ... up to the return of list_namespaced_service. *)
ListServices(c) ==
    /\ pc[c] = "list_services"
    /\ \E out \in ListOutcomes :
          /\ Logged(c, "list_namespaced_service", Namespace(c), out)
          /\ IF Raises(out)
             THEN /\ Return(c, KubeInfoExcept(out))
                  /\ UNCHANGED local
             ELSE /\ local' = [local EXCEPT ![c].services = out.v]
                  /\ pc' = [pc EXCEPT ![c] = "list_pods"]
                  /\ UNCHANGED resp
    /\ UNCHANGED req

(* ... list_namespaced_pod and the return statement. *)
ListPods(c) ==
    /\ pc[c] = "list_pods"
    /\ \E out \in ListOutcomes :
          /\ Logged(c, "list_namespaced_pod", Namespace(c), out)
          /\ IF Raises(out)
             THEN Return(c, KubeInfoExcept(out))
             ELSE Return(c, KubeInfoBody(Namespace(c), local[c].deployments,
                                         local[c].services, out.v))
    /\ UNCHANGED <<req, local>>

get_kubernetes_namespaces(c) ==
    /\ pc[c] = "list_namespace"
    /\ \E out \in NamespaceOutcomes :
          /\ Logged(c, "list_namespace", "", out)
          /\ Return(c, NamespacesResponse(out))
    /\ UNCHANGED <<req, local>>

get_kubernetes_nodes(c) ==
    /\ pc[c] = "list_node"
    /\ \E out \in NodeOutcomes :
          /\ Logged(c, "list_node", "", out)
          /\ Return(c, NodesResponse(out))
    /\ UNCHANGED <<req, local>>

get_pod_metrics(c) ==
    /\ pc[c] = "list_metrics"
    /\ LET namespace == ResolveNamespace(req[c].ns)
       IN  \E out \in MetricsOutcomes :
              /\ Logged(c, "list_namespaced_custom_object", namespace, out)
              /\ local' = [local EXCEPT ![c].namespace = namespace]
              /\ Return(c, PodMetricsResponse(out))
    /\ UNCHANGED req

(* scan_image up to the try block: get_json(), data.get() and the check  *)
(* of the image.  None has no attribute get: the AttributeError is       *)
(* raised outside any try block.                                         *)
ScanValidate(c) ==
    /\ pc[c] = "get_json"
    /\ LET data == req[c].body
           image == GetContainerId(data)
       IN  IF ~data.isObject
           THEN /\ Return(c, Unhandled)
                /\ UNCHANGED local
           ELSE IF ~Truthy(image)
           THEN /\ Return(c, Json(400, [error |-> <<"container_id is required">>]))
                /\ local' = [local EXCEPT ![c].image = image]
           ELSE /\ local' = [local EXCEPT ![c].image = image]
                /\ pc' = [pc EXCEPT ![c] = "trivy"]
                /\ UNCHANGED resp
    /\ UNCHANGED <<req, calls>>

(* The try block of scan_image.  An argument that is not a string makes  *)
(* subprocess.run raise TypeError before any process exists.             *)
ScanRun(c) ==
    /\ pc[c] = "trivy"
    /\ \E out \in ScannerOutcomes :
          /\ local[c].image.t # "str" => out.kind = "exception"
          /\ Logged(c, "subprocess.run", local[c].image.v, out)
          /\ Return(c, ScanResponse(out))
    /\ UNCHANGED <<req, local>>

(* The response is sent and the thread's state is gone. *)
Respond(c) ==
    /\ pc[c] = "done"
    /\ pc' = [pc EXCEPT ![c] = "idle"]
    /\ req' = [req EXCEPT ![c] = NoRequest]
    /\ local' = [local EXCEPT ![c] = NoLocals]
    /\ calls' = [calls EXCEPT ![c] = <<>>]
    /\ resp' = [resp EXCEPT ![c] = NoResponse]

(* One step of the thread serving client c. *)
Step(c) ==
    \/ Receive(c)
    \/ health_check(c)
    \/ get_system_info(c)
    \/ ListDeployments(c)
    \/ ListServices(c)
    \/ ListPods(c)
    \/ get_kubernetes_namespaces(c)
    \/ get_kubernetes_nodes(c)
    \/ get_pod_metrics(c)
    \/ ScanValidate(c)
    \/ ScanRun(c)
    \/ Respond(c)

Next == \E c \in Clients : Step(c)

Spec == Init /\ [][Next]_vars

(* ------------------------------------------------------------------ *)
(* A handler run from its first line to its return with nothing in      *)
(* between: the response to request r when the backend answers its      *)
(* calls, in order, with outs.                                          *)
(* ------------------------------------------------------------------ *)
Sequential(r, outs) ==
    CASE r.op = "health" -> HealthResponse
      [] r.op = "system_info" -> SystemInfoResponse(outs[1])
      [] r.op = "kubernetes_info" ->
            IF Raises(outs[1]) THEN KubeInfoExcept(outs[1])
            ELSE IF Raises(outs[2]) THEN KubeInfoExcept(outs[2])
            ELSE IF Raises(outs[3]) THEN KubeInfoExcept(outs[3])
            ELSE KubeInfoBody(ResolveNamespace(r.ns), outs[1].v, outs[2].v, outs[3].v)
      [] r.op = "kubernetes_namespaces" -> NamespacesResponse(outs[1])
      [] r.op = "kubernetes_nodes" -> NodesResponse(outs[1])
      [] r.op = "pod_metrics" -> PodMetricsResponse(outs[1])
      [] r.op = "scan_image" ->
            IF ~r.body.isObject THEN Unhandled
            ELSE IF ~Truthy(GetContainerId(r.body))
            THEN Json(400, [error |-> <<"container_id is required">>])
            ELSE ScanResponse(outs[1])

(* ------------------------------------------------------------------ *)
(* Vocabulary of the properties                                         *)
(* ------------------------------------------------------------------ *)

Done(c) == pc[c] = "done"
Serving(c, op) == Done(c) /\ req[c].op = op
CallCount(c) == Len(calls[c])
Outs(c) == [i \in 1..Len(calls[c]) |-> calls[c][i].out]
Apis(c) == [i \in 1..Len(calls[c]) |-> calls[c][i].api]

(* The backend call did not deliver a result. *)
Failed(call) ==
    IF call.api = "subprocess.run"
    THEN call.out.kind # "zero"
    ELSE call.out.kind \in {"api", "other"}
SomeCallFailed(c) == \E i \in 1..Len(calls[c]) : Failed(calls[c][i])

CountFields == {"num_deployments", "num_services", "num_pods"}
SummaryCalls ==
    <<"list_namespaced_deployment", "list_namespaced_service", "list_namespaced_pod">>
NamespacedApis ==
    {"list_namespaced_deployment", "list_namespaced_service", "list_namespaced_pod",
     "list_namespaced_custom_object"}
ClusterOps == {"kubernetes_info", "kubernetes_namespaces", "kubernetes_nodes", "pod_metrics"}

(* The namespace a request asks for. *)
Asked(r) == IF r.ns = NoArg THEN "default" ELSE r.ns

(* A part of message m is the text t. *)
Mentions(m, t) == \E i \in 1..Len(m) : m[i] = t
IsPrefix(s, t) == Len(s) <= Len(t) /\ \A i \in 1..Len(s) : s[i] = t[i]

(* ------------------------------------------------------------------ *)
(* Properties                                                           *)
(* ------------------------------------------------------------------ *)

(* The image reference of a scan request is empty or absent. *)
EmptyImage(body) ==
    \/ ~body.isObject
    \/ ~body.hasField
    \/ body.container_id = JStr("")

(* C1: a scan request whose image reference is empty or absent (no       *)
(* container_id field, an empty string, or a body that is no object) is  *)
(* answered with a 400-class error, and subprocess.run is never called   *)
(* for it.                                                               *)
C1_EmptyImageRejected ==
    \A c \in Clients :
        (Serving(c, "scan_image") /\ EmptyImage(req[c].body)) =>
            /\ resp[c].status \in 400..499
            /\ CallCount(c) = 0

(* C2: whatever backend call fails, the request ends with the handler's  *)
(* own response: status 500 and a JSON body with an error field.         *)
C2_HandlerIsFailureBoundary ==
    \A c \in Clients :
        (Done(c) /\ SomeCallFailed(c)) =>
            /\ resp[c].handled
            /\ resp[c].status = 500
            /\ "error" \in DOMAIN resp[c].body

(* C3: the cluster summary is all-or-nothing.  If one of its list calls  *)
(* failed, the response is a 500 error without any count field; a        *)
(* response with a count field is a 200 that follows three successful    *)
(* calls (deployments, services, pods), all made with one namespace.     *)
C3_SummaryAllOrNothing ==
    \A c \in Clients :
        Serving(c, "kubernetes_info") =>
            /\ SomeCallFailed(c) =>
                  /\ resp[c].status = 500
                  /\ "error" \in DOMAIN resp[c].body
                  /\ DOMAIN resp[c].body \cap CountFields = {}
            /\ DOMAIN resp[c].body \cap CountFields # {} =>
                  /\ resp[c].status = 200
                  /\ CountFields \subseteq DOMAIN resp[c].body
                  /\ Apis(c) = SummaryCalls
                  /\ ~SomeCallFailed(c)
                  /\ \A i \in 1..CallCount(c) : calls[c][i].arg = calls[c][1].arg

(* C3 witness: the deployments call succeeded, the services call         *)
(* failed, and the request ended in a 500.                               *)
C3_Witness ==
    \E c \in Clients :
        /\ Serving(c, "kubernetes_info")
        /\ CallCount(c) = 2
        /\ ~Failed(calls[c][1]) /\ Len(calls[c][1].out.v) = 1
        /\ Failed(calls[c][2])
        /\ resp[c].status = 500

ReasonInBody(body, reason) ==
    \/ "error" \in DOMAIN body /\ Mentions(body.error, reason)
    \/ "details" \in DOMAIN body /\ Mentions(body.details, reason)

(* C5: in every cluster-state operation a failure reported by the        *)
(* control plane puts its reason in the error body, and a failure of any *)
(* other kind gives an error body with a generic message only.           *)
C5_ReasonSurfaced ==
    \A c \in Clients :
        (Done(c) /\ req[c].op \in ClusterOps /\ SomeCallFailed(c)) =>
            LET out == calls[c][CallCount(c)].out
            IN  /\ out.kind = "api" => ReasonInBody(resp[c].body, out.reason)
                /\ out.kind = "other" =>
                      /\ DOMAIN resp[c].body = {"error"}
                      /\ \A r \in Reasons : ~Mentions(resp[c].body.error, r)

(* C6: a scan request with a non-empty image reference runs the scanner  *)
(* once and answers by its outcome: exit zero, 200 with scan_results the *)
(* standard output; non-zero exit, 500 with details the diagnostic       *)
(* stream; any other failure, 500 with an error and no details.          *)
C6_ScanOutcome ==
    \A c \in Clients :
        Serving(c, "scan_image") =>
            /\ (req[c].body.isObject /\ req[c].body.hasField
                    /\ req[c].body.container_id.t = "str"
                    /\ req[c].body.container_id.v # "") =>
                  /\ CallCount(c) = 1
                  /\ calls[c][1].arg = req[c].body.container_id.v
            /\ CallCount(c) > 0 =>
                  LET out == calls[c][1].out
                  IN  /\ out.kind = "zero" =>
                            /\ resp[c].status = 200
                            /\ resp[c].body = [scan_results |-> out.stdout]
                      /\ out.kind = "nonzero" =>
                            /\ resp[c].status = 500
                            /\ DOMAIN resp[c].body = {"error", "details"}
                            /\ resp[c].body.details = out.stderr
                      /\ out.kind = "exception" =>
                            /\ resp[c].status = 500
                            /\ DOMAIN resp[c].body = {"error"}

(* C6 witness: the scanner exited non-zero with a diagnostic. *)
C6_Witness ==
    \E c \in Clients :
        /\ Serving(c, "scan_image")
        /\ CallCount(c) = 1
        /\ calls[c][1].out.kind = "nonzero"
        /\ calls[c][1].out.stderr # ""
        /\ resp[c].body.details = calls[c][1].out.stderr

(* C7: the namespace of the cluster summary and of the pod metrics is    *)
(* never empty: without a namespace argument the calls are made with     *)
(* "default", and in every request the namespace given to the backend    *)
(* and the namespace in the response are non-empty.                      *)
C7_NamespaceNeverEmpty ==
    \A c \in Clients :
        /\ \A i \in 1..CallCount(c) :
              calls[c][i].api \in NamespacedApis =>
                  /\ calls[c][i].arg # ""
                  /\ req[c].ns = NoArg => calls[c][i].arg = "default"
        /\ (Done(c) /\ "namespace" \in DOMAIN resp[c].body) =>
              resp[c].body.namespace # ""

(* What a request's backend calls are made with. *)
ExpectedArg(r, api) ==
    CASE api \in NamespacedApis -> Asked(r)
      [] api = "subprocess.run" -> r.body.container_id.v
      [] api = "psutil" -> "/"
      [] OTHER -> ""

(* C8: whatever the other request does meanwhile, a request's calls are  *)
(* made with its own inputs, its response is the one the handler gives   *)
(* when run alone against the same backend answers, no response exists   *)
(* before the handler returns, and a request that has been received can  *)
(* always take its next step.                                            *)
C8_NoCrossRequestInterference ==
    \A c \in Clients :
        /\ \A i \in 1..CallCount(c) :
              calls[c][i].arg = ExpectedArg(req[c], calls[c][i].api)
        /\ Done(c) => resp[c] = Sequential(req[c], Outs(c))
        /\ ~Done(c) => resp[c] = NoResponse
        /\ pc[c] # "idle" => ENABLED Step(c)

(* C8 witness: two different operations are both answered, one request   *)
(* having failed and the other, a cluster summary of three calls, not.   *)
C8_Witness ==
    /\ Done("c1") /\ Done("c2")
    /\ req["c1"].op = "pod_metrics" /\ resp["c1"].status = 500
    /\ req["c2"] = Request("kubernetes_info", "prod", NullBody)
    /\ resp["c2"].status = 200
    /\ resp["c2"].body.namespace = "prod"

(* C9: a successful cluster summary for namespace ns carries ns and      *)
(* three counts, each the number of items the control plane listed in ns *)
(* for deployments, services and pods.                                   *)
C9_SummaryCounts ==
    \A c \in Clients :
        (Serving(c, "kubernetes_info") /\ resp[c].status = 200) =>
            /\ Apis(c) = SummaryCalls
            /\ \A i \in 1..3 : calls[c][i].arg = Asked(req[c]) /\ ~Failed(calls[c][i])
            /\ resp[c].body.namespace = Asked(req[c])
            /\ resp[c].body.num_deployments = Len(calls[c][1].out.v)
            /\ resp[c].body.num_services = Len(calls[c][2].out.v)
            /\ resp[c].body.num_pods = Len(calls[c][3].out.v)
            /\ \A f \in CountFields : resp[c].body[f] \in Nat

(* C9 witness: a summary of one deployment, no service and one pod. *)
C9_Witness ==
    \E c \in Clients :
        /\ Serving(c, "kubernetes_info")
        /\ req[c].ns = "prod"
        /\ resp[c].status = 200
        /\ resp[c].body.num_deployments = 1
        /\ resp[c].body.num_services = 0
        /\ resp[c].body.num_pods = 1

(* C10: within a request no backend call is made twice, the cluster      *)
(* summary makes its calls in the order deployments, services, pods, no  *)
(* call follows a failed one, and the request whose call failed ends     *)
(* with an error response.                                               *)
C10_NoRetry ==
    \A c \in Clients :
        /\ \A i, j \in 1..CallCount(c) : calls[c][i].api = calls[c][j].api => i = j
        /\ req[c].op = "kubernetes_info" => IsPrefix(Apis(c), SummaryCalls)
        /\ \A i \in 1..CallCount(c) : Failed(calls[c][i]) => i = CallCount(c)
        /\ SomeCallFailed(c) => Done(c) /\ resp[c].status = 500

(* C10 witness: the first list call of a cluster summary failed and the  *)
(* request ended there.                                                  *)
C10_Witness ==
    \E c \in Clients :
        /\ Serving(c, "kubernetes_info")
        /\ CallCount(c) = 1
        /\ Failed(calls[c][1])
        /\ resp[c].status = 500

====
